---- MODULE Spec2Model ----
(***************************************************************************)
(* Token lifecycle and request dispatch of the two AirIQ clients of the    *)
(* repository:                                                             *)
(*   - AirIQClient (src/airiq_client.py), the single instance shared by    *)
(*     the request handlers of the Flask application (src/app.py);         *)
(*   - TravelAPIClient (src/test_cairiq.py), used from the single thread   *)
(*     of its HTTPServer / of main().                                      *)
(* The two classes never live in one process: Init picks the program.      *)
(*                                                                         *)
(* Time is a tick counter.  A calendar day has DayLen ticks; the last tick *)
(* of a day stands for 23:59:59.  TokenTTL ticks stand for the 15 minutes  *)
(* of AirIQClient._login.                                                  *)
(*                                                                         *)
(* AirIQClient.__init__ reads Config.HARDCODED_TOKEN, which src/config.py  *)
(* does not define; hardcoded_token is the optional override token of the  *)
(* environment that the attribute stands for (None when it is not set).    *)
(***************************************************************************)
EXTENDS Integers, Sequences, FiniteSets, TLC

\* ---------------------------------------------------------------- bounds
MaxTime == 3
DayLen == 2
TokenTTL == 1

\* ------------------------------------------------------------ Python values
None == "None"
NoExpiry == -1
BadExpiry == -2

Truthy(x) == x # None /\ x # ""

AGENT_ID == "AQAG059771"

Callers == {"c1", "c2"}
MainThread == "c1"

\* ------------------------------------------------------------ the server
LR(k, rc, t) == [kind |-> k, rc |-> rc, tok |-> t]
NoResp == LR("none", "absent", None)

\* What the Login endpoint may answer: a transport error, an HTTP error
\* status, a body that is not JSON, or a JSON body with Status.ResultCode
\* and Token.  "quota" is the JSON body by which the provider refuses a
\* login once the day's logins are used up: a negative ResultCode, no Token.
LoginResponses ==
    {LR("transport", "absent", None), LR("http", "absent", None),
     LR("badjson", "absent", None), LR("quota", "0", None)}
    \cup {LR("json", rc, t) : rc \in {"1", "0"}, t \in {None, "", "T1", "T2"}}

\* What a data endpoint may answer.
DataResponses == {"transport", "ok200", "timedout200", "unauth401", "err500"}

StatusCode(r) ==
    CASE r = "ok200" -> 200
      [] r = "timedout200" -> 200
      [] r = "unauth401" -> 401
      [] OTHER -> 500

\* 'token was timed out' in response.text.lower()
TimedOutText(r) == r = "timedout200"

\* What a caller may pass to a search: well-formed arguments, a date that is
\* no date, or an empty station code.
Inputs == {"ok", "bad_date", "empty_station"}

\* ------------------------------------------------------------ the token file
FR(k, t, e, a) == [kind |-> k, token |-> t, expiry |-> e, agent_id |-> a]
NoFile == FR("missing", None, NoExpiry, None)

InitialFiles ==
    {NoFile, FR("garbage", None, NoExpiry, None)}
    \cup {FR("json", t, e, a) :
            t \in {None, "F1"},
            e \in {NoExpiry, BadExpiry, DayLen - 1, (2 * DayLen) - 1},
            a \in {AGENT_ID, "OTHER"}}

\* ------------------------------------------------------------ state
VARIABLES
    cls,              \* the program: "AirIQClient" or "TravelAPIClient"
    hardcoded_token,  \* AirIQClient.hardcoded_token
    token,            \* self.token
    token_expiry,     \* self.token_expiry
    token_file,       \* content of /tmp/travel_api_token.json
    constructed,      \* TravelAPIClient.__init__ returned normally
    now,              \* datetime.now()
    pc,               \* each caller's position
    call,             \* each caller's locals and the record of its call
    last              \* record of the call that returned last

vars == <<cls, hardcoded_token, token, token_expiry, token_file, constructed,
          now, pc, call, last>>

\* ------------------------------------------------------------ call records
\* What a call has done so far.  saw is what the validity check of the call
\* found in the session (Seen below); log lists the requests it has sent, in
\* order; loginKind and loginRc are the kind and the Status.ResultCode of
\* the Login response; r1 and r2 are the responses to its first and second
\* data request;
\* gate is what the session was when a route handler asked is_token_valid
\* or get_token_status, and status what it was told;
\* input is the kind of arguments the caller passed.
NoLast == [kind |-> "none", n |-> 0, tok |-> None]

BlankCall ==
    [op |-> "none", prev |-> NoLast, saw |-> "unchecked",
     log |-> <<>>, loginKind |-> "none", loginRc |-> "absent", loginOK |-> FALSE,
     tok |-> None, r1 |-> "none", r2 |-> "none",
     gate |-> "unchecked", status |-> "none", input |-> "ok",
     outcome |-> "pending", ret |-> None]

\* A request as sent: a Login request, or a data request with the scheme
\* and the token of its Authorization header.
Req(k, s, t) == [kind |-> k, scheme |-> s, tok |-> t]

Logins(k) == SelectSeq(k.log, LAMBDA q : q.kind = "Login")
DataReqs(k) == SelectSeq(k.log, LAMBDA q : q.kind = "Data")
NLogin(k) == Len(Logins(k))
NData(k) == Len(DataReqs(k))

\* The session as a validity check at time t finds it.
Seen(tk, ex, t) ==
    IF ~Truthy(tk) THEN "empty"
    ELSE IF ex = NoExpiry THEN "noexp"
    ELSE IF t > ex THEN "expired"
    ELSE IF t = ex THEN "due"
    ELSE "valid"

\* ------------------------------------------------------------ pure helpers
\* datetime.now().replace(hour=23, minute=59, second=59)
EndOfDay(t) == (t - (t % DayLen)) + (DayLen - 1)

\* datetime.now() + datetime.timedelta(minutes=15)
FifteenMinutesFrom(t) == t + TokenTTL

\* TravelAPIClient.is_token_valid
is_token_valid(tk, ex, t) ==
    IF ~Truthy(tk) THEN FALSE
    ELSE IF ex # NoExpiry /\ t >= ex THEN FALSE
    ELSE TRUE

\* A slip of _load_token: the agent_id of the file is not compared.
LoadToken_IgnoresAgent(f, t) ==
    IF f.kind # "json" THEN [token |-> None, expiry |-> NoExpiry, ok |-> TRUE]
    ELSE IF f.expiry = BadExpiry
         THEN [token |-> f.token, expiry |-> NoExpiry, ok |-> FALSE]
    ELSE IF is_token_valid(f.token, f.expiry, t)
         THEN [token |-> f.token, expiry |-> f.expiry, ok |-> f.expiry # NoExpiry]
    ELSE [token |-> None, expiry |-> NoExpiry, ok |-> TRUE]

\* A slip of _load_token: a saved token that has expired is kept.
LoadToken_KeepsExpired(f, t) ==
    IF f.kind = "json" /\ f.agent_id = AGENT_ID
    THEN [token |-> f.token, expiry |-> f.expiry, ok |-> TRUE]
    ELSE [token |-> None, expiry |-> NoExpiry, ok |-> TRUE]

\* TravelAPIClient._load_token, as run by __init__ on file f at time t:
\* the token, the expiry and whether the constructor returned normally.
\* fromisoformat raises ValueError on a bad expiry string, and printing
\* self.token_expiry - datetime.now() raises TypeError for a token loaded
\* without an expiry; neither is caught by _load_token.
LoadToken(f, t) ==
    IF f.kind # "json" THEN [token |-> None, expiry |-> NoExpiry, ok |-> TRUE]
    ELSE IF f.agent_id # AGENT_ID
         THEN [token |-> None, expiry |-> NoExpiry, ok |-> TRUE]
    ELSE IF f.expiry = BadExpiry
         THEN [token |-> f.token, expiry |-> NoExpiry, ok |-> FALSE]
    ELSE IF is_token_valid(f.token, f.expiry, t)
         THEN [token |-> f.token, expiry |-> f.expiry, ok |-> f.expiry # NoExpiry]
    ELSE [token |-> None, expiry |-> NoExpiry, ok |-> TRUE]

\* TravelAPIClient._save_token: the file after the call; wrote says whether
\* open/json.dump went through (a failure is caught and printed).
SaveToken(f, tk, ex, wrote) ==
    IF Truthy(tk) /\ ex # NoExpiry /\ wrote
    THEN FR("json", tk, ex, AGENT_ID)
    ELSE f

\* ------------------------------------------------------------ Init
Init ==
    /\ cls \in {"AirIQClient", "TravelAPIClient"}
    /\ now \in 0..(DayLen - 1)
    /\ IF cls = "AirIQClient"
       THEN /\ hardcoded_token \in {None, "HARD"}
            /\ token = None
            /\ token_expiry = NoExpiry
            /\ token_file = NoFile
            /\ constructed = TRUE
       ELSE /\ hardcoded_token = None
            /\ token_file \in InitialFiles
            /\ token = LoadToken(token_file, now).token
            /\ token_expiry = LoadToken(token_file, now).expiry
            /\ constructed = LoadToken(token_file, now).ok
    /\ pc = [c \in Callers |-> "idle"]
    /\ call = [c \in Callers |-> BlankCall]
    /\ last = NoLast

\* ------------------------------------------------------------ time
Tick ==
    /\ now < MaxTime
    /\ now' = now + 1
    /\ UNCHANGED <<cls, hardcoded_token, token, token_expiry, token_file,
                   constructed, pc, call, last>>

\* ------------------------------------------------------------ calls
Others == <<cls, hardcoded_token, constructed, now>>

Idle(c) == pc[c] = "idle"

\* A call of operation op begins on caller c at position p.  prev is what
\* the call that returned last left in `last`, when no other call is under
\* way, and NoLast otherwise: the call directly follows that one.  A call
\* that begins while another is under way ends that one's claim to follow.
Begin(c, op, p) ==
    /\ Idle(c)
    /\ pc' = [pc EXCEPT ![c] = p]
    /\ call' = [d \in Callers |->
                  IF d = c
                  THEN [BlankCall EXCEPT !.op = op,
                          !.prev = IF \A e \in Callers : Idle(e) THEN last ELSE NoLast]
                  ELSE [call[d] EXCEPT !.prev = NoLast]]
    /\ last' = NoLast

\* The call was a token acquisition that found the session empty and went
\* on to send its data request with the token it obtained.
Acquired(k) == k.saw = "empty" /\ NData(k) > 0

\* The call was set_token_manually with a non-empty token.
Injected(k) == k.op = "set_token_manually" /\ Truthy(k.tok)

\* What a returned call leaves in `last`: for an acquisition, the number of
\* its Login requests; for an injection, the token injected.
Summary(k) ==
    IF Acquired(k) THEN [kind |-> "acquired", n |-> NLogin(k), tok |-> None]
    ELSE IF Injected(k) THEN [kind |-> "injected", n |-> 0, tok |-> k.tok]
    ELSE NoLast

Finish(k, out, r) == [k EXCEPT !.outcome = out, !.ret = r]

\* The caller takes the result or the exception of its call.
Return(c) ==
    /\ pc[c] = "done"
    /\ pc' = [pc EXCEPT ![c] = "idle"]
    /\ last' = Summary(call[c])
    /\ call' = [call EXCEPT ![c] = BlankCall]
    /\ UNCHANGED <<token, token_expiry, token_file, Others>>

\* ------------------------------------------------------------ AirIQClient
\* availability builds its payload; pricing and book pass the caller's payload
\* on and are the same code but for the endpoint and the timeout: "forward"
\* stands for either.
AirIQOps == {"availability", "forward"}

\* availability, pricing or book is called, with arguments of kind inp.
AirIQ_call(c, op, inp) ==
    /\ cls = "AirIQClient"
    /\ Idle(c)
    /\ pc' = [pc EXCEPT ![c] = "get_token"]
    /\ call' = [d \in Callers |->
                  IF d = c
                  THEN [BlankCall EXCEPT !.op = op, !.input = inp,
                          !.prev = IF \A e \in Callers : Idle(e) THEN last ELSE NoLast]
                  ELSE [call[d] EXCEPT !.prev = NoLast]]
    /\ last' = NoLast
    /\ UNCHANGED <<token, token_expiry, token_file, Others>>

\* The /search route on a form whose date strptime rejects: the ValueError
\* is raised before the try block and before availability is called.
AirIQ_search_bad_date(c) ==
    /\ cls = "AirIQClient"
    /\ Idle(c)
    /\ pc' = [pc EXCEPT ![c] = "done"]
    /\ call' = [d \in Callers |->
                  IF d = c
                  THEN Finish([BlankCall EXCEPT !.op = "search",
                                               !.input = "bad_date"],
                              "ValueError", None)
                  ELSE [call[d] EXCEPT !.prev = NoLast]]
    /\ last' = NoLast
    /\ UNCHANGED <<token, token_expiry, token_file, Others>>

\* The /test-login route calls _login directly.
AirIQ_test_login(c) ==
    /\ cls = "AirIQClient"
    /\ Begin(c, "test_login", "login")
    /\ UNCHANGED <<token, token_expiry, token_file, Others>>

\* A slip of _get_token: the comparison with the expiry turned around.
AirIQ_needs_login_Reversed(tk, ex, t) == ~Truthy(tk) \/ t <= ex

\* not self.token or datetime.now() >= self.token_expiry
AirIQ_needs_login(tk, ex, t) == ~Truthy(tk) \/ t >= ex

\* _get_token up to its decision.  Comparing now with a token_expiry of
\* None raises TypeError.
AirIQ_get_token(c) ==
    /\ pc[c] = "get_token"
    /\ IF Truthy(hardcoded_token)
       THEN /\ pc' = [pc EXCEPT ![c] = "send"]
            /\ call' = [call EXCEPT ![c].tok = hardcoded_token]
       ELSE LET k == [call[c] EXCEPT !.saw = Seen(token, token_expiry, now)]
            IN  IF Truthy(token) /\ token_expiry = NoExpiry
                THEN /\ pc' = [pc EXCEPT ![c] = "done"]
                     /\ call' = [call EXCEPT ![c] = Finish(k, "TypeError", None)]
                ELSE IF AirIQ_needs_login(token, token_expiry, now)
                THEN /\ pc' = [pc EXCEPT ![c] = "login"]
                     /\ call' = [call EXCEPT ![c] = k]
                ELSE /\ pc' = [pc EXCEPT ![c] = "ret_token"]
                     /\ call' = [call EXCEPT ![c] = k]
    /\ UNCHANGED <<token, token_expiry, token_file, last, Others>>

\* return self.token
AirIQ_ret_token(c) ==
    /\ pc[c] = "ret_token"
    /\ pc' = [pc EXCEPT ![c] = "send"]
    /\ call' = [call EXCEPT ![c].tok = token]
    /\ UNCHANGED <<token, token_expiry, token_file, last, Others>>

\* _login up to requests.post: the hardcoded token is returned without a
\* request, else the Login request is sent.
AirIQ_login_send(c) ==
    /\ pc[c] = "login"
    /\ IF Truthy(hardcoded_token)
       THEN IF call[c].op = "test_login"
            THEN /\ pc' = [pc EXCEPT ![c] = "done"]
                 /\ call' = [call EXCEPT ![c] =
                      Finish([call[c] EXCEPT !.tok = hardcoded_token],
                             "token", hardcoded_token)]
            ELSE /\ pc' = [pc EXCEPT ![c] = "send"]
                 /\ call' = [call EXCEPT ![c].tok = hardcoded_token]
       ELSE /\ pc' = [pc EXCEPT ![c] = "login_wait"]
            /\ call' = [call EXCEPT ![c].log = Append(@, Req("Login", "b64", None))]
    /\ UNCHANGED <<token, token_expiry, token_file, last, Others>>

\* token = j.get("Token"); if not token: raise
AirIQ_accepts(r) == Truthy(r.tok)

\* The Login response arrives: raise_for_status, resp.json(), the Token
\* test, and self.token = token.
AirIQ_login_recv(c, r) ==
    /\ pc[c] = "login_wait"
    /\ LET k == [call[c] EXCEPT !.loginKind = r.kind, !.loginRc = r.rc] IN
       IF r.kind = "transport"
       THEN /\ call' = [call EXCEPT ![c] = Finish(k, "RequestException", None)]
            /\ pc' = [pc EXCEPT ![c] = "done"]
            /\ token' = token
       ELSE IF r.kind = "http"
       THEN /\ call' = [call EXCEPT ![c] = Finish(k, "HTTPError", None)]
            /\ pc' = [pc EXCEPT ![c] = "done"]
            /\ token' = token
       ELSE IF r.kind = "badjson"
       THEN /\ call' = [call EXCEPT ![c] = Finish(k, "JSONDecodeError", None)]
            /\ pc' = [pc EXCEPT ![c] = "done"]
            /\ token' = token
       ELSE IF AirIQ_accepts(r)
       THEN /\ call' = [call EXCEPT ![c] =
                          [k EXCEPT !.tok = r.tok, !.loginOK = TRUE]]
            /\ pc' = [pc EXCEPT ![c] = "login_expiry"]
            /\ token' = r.tok
       ELSE /\ call' = [call EXCEPT ![c] = Finish(k, "LoginFailed", None)]
            /\ pc' = [pc EXCEPT ![c] = "done"]
            /\ token' = token
    /\ UNCHANGED <<token_expiry, token_file, last, Others>>

\* self.token_expiry = now + 15 minutes; return token
AirIQ_login_expiry(c) ==
    /\ pc[c] = "login_expiry"
    /\ token_expiry' = FifteenMinutesFrom(now)
    /\ IF call[c].op = "test_login"
       THEN /\ pc' = [pc EXCEPT ![c] = "done"]
            /\ call' = [call EXCEPT ![c] = Finish(call[c], "token", call[c].tok)]
       ELSE /\ pc' = [pc EXCEPT ![c] = "send"]
            /\ call' = call
    /\ UNCHANGED <<token, token_file, last, Others>>

\* availability builds its payload with date.strftime, which raises
\* AttributeError on a date that is no date; then
\* requests.post(f"{base_url}/<Operation>", headers={"Authorization": token})
AirIQ_send(c) ==
    /\ pc[c] = "send"
    /\ IF call[c].op = "availability" /\ call[c].input = "bad_date"
       THEN /\ pc' = [pc EXCEPT ![c] = "done"]
            /\ call' = [call EXCEPT ![c] = Finish(call[c], "AttributeError", None)]
       ELSE /\ pc' = [pc EXCEPT ![c] = "wait"]
            /\ call' = [call EXCEPT ![c].log =
                          Append(@, Req("Data", "bare", call[c].tok))]
    /\ UNCHANGED <<token, token_expiry, token_file, last, Others>>

\* r.raise_for_status(); return r.json()
AirIQ_recv(c, r) ==
    /\ pc[c] = "wait"
    /\ pc' = [pc EXCEPT ![c] = "done"]
    /\ LET k == [call[c] EXCEPT !.r1 = r] IN
       call' = [call EXCEPT ![c] =
                  IF r = "transport" THEN Finish(k, "RequestException", None)
                  ELSE IF StatusCode(r) >= 400 THEN Finish(k, "HTTPError", None)
                  ELSE Finish(k, "payload", r)]
    /\ UNCHANGED <<token, token_expiry, token_file, last, Others>>

AirIQNext ==
    \E c \in Callers :
        \/ \E inp \in Inputs : AirIQ_call(c, "availability", inp)
        \/ AirIQ_call(c, "forward", "ok")
        \/ AirIQ_search_bad_date(c)
        \/ AirIQ_test_login(c)
        \/ AirIQ_get_token(c)
        \/ AirIQ_ret_token(c)
        \/ AirIQ_login_send(c)
        \/ \E r \in LoginResponses : AirIQ_login_recv(c, r)
        \/ AirIQ_login_expiry(c)
        \/ AirIQ_send(c)
        \/ \E r \in DataResponses : AirIQ_recv(c, r)

\* ------------------------------------------------------------ TravelAPIClient
\* All calls of the TravelAPIClient are made from one thread: main(), or
\* the HTTPServer's serve_forever loop, which handles one request at a time.
TravelCaller(c) == cls = "TravelAPIClient" /\ constructed /\ c = MainThread

\* search_availability -> post_data -> make_authenticated_request
Travel_search_availability(c, inp) ==
    /\ TravelCaller(c)
    /\ Idle(c)
    /\ pc' = [pc EXCEPT ![c] = "ensure"]
    /\ call' = [call EXCEPT ![c] =
                  [BlankCall EXCEPT !.op = "search_availability",
                                    !.input = inp, !.prev = last]]
    /\ last' = NoLast
    /\ UNCHANGED <<token, token_expiry, token_file, Others>>

\* authenticate() called directly
Travel_authenticate(c) ==
    /\ TravelCaller(c)
    /\ Begin(c, "authenticate", "auth")
    /\ UNCHANGED <<token, token_expiry, token_file, Others>>

\* set_token_manually(t): the whole method.
set_token_manually(c, t, wrote) ==
    /\ TravelCaller(c)
    /\ Idle(c)
    /\ pc' = [pc EXCEPT ![c] = "done"]
    /\ call' = [call EXCEPT ![c] =
                  Finish([BlankCall EXCEPT !.op = "set_token_manually",
                                           !.prev = last, !.tok = t],
                         "True", None)]
    /\ last' = NoLast
    /\ token' = t
    /\ token_expiry' = EndOfDay(now)
    /\ token_file' = SaveToken(token_file, t, EndOfDay(now), wrote)
    /\ UNCHANGED Others

\* TravelAPIClient.get_token_status: the "status" of the dict it returns.
\* With a token and no expiry, self.token_expiry - datetime.now() raises.
get_token_status(tk, ex, t) ==
    IF ~Truthy(tk) THEN "no_token"
    ELSE IF ~is_token_valid(tk, ex, t) THEN "expired"
    ELSE IF ex = NoExpiry THEN "TypeError"
    ELSE "valid"

\* The /debug route: the whole handler.  json.dumps cannot serialise the
\* datetime that the "expired" and "valid" dicts hold, so the handler ends
\* in TypeError after the headers; else the body goes out, with a
\* token_preview of None since the token is empty.
Travel_debug(c) ==
    /\ TravelCaller(c)
    /\ Idle(c)
    /\ pc' = [pc EXCEPT ![c] = "done"]
    /\ LET st == get_token_status(token, token_expiry, now)
           k == [BlankCall EXCEPT !.op = "debug", !.prev = NoLast,
                                  !.gate = Seen(token, token_expiry, now),
                                  !.status = st]
       IN  call' = [call EXCEPT ![c] =
                      IF st = "no_token" THEN Finish(k, "body", None)
                      ELSE Finish(k, "TypeError", None)]
    /\ last' = NoLast
    /\ UNCHANGED <<token, token_expiry, token_file, Others>>

\* The /search route: a date that strptime rejects is replaced by
\* '20241010' and an empty station code (dropped by parse_qs) by the
\* default; search_availability is called only when is_token_valid() says
\* so, else the answer is 'Not authenticated'.
Travel_web_search(c, inp) ==
    /\ TravelCaller(c)
    /\ Idle(c)
    /\ LET k == [BlankCall EXCEPT !.op = "web_search", !.prev = last,
                                  !.input = inp,
                                  !.gate = Seen(token, token_expiry, now)]
       IN  IF is_token_valid(token, token_expiry, now)
           THEN /\ pc' = [pc EXCEPT ![c] = "ensure"]
                /\ call' = [call EXCEPT ![c] = [k EXCEPT !.status = "True"]]
           ELSE /\ pc' = [pc EXCEPT ![c] = "done"]
                /\ call' = [call EXCEPT ![c] =
                     Finish([k EXCEPT !.status = "False"], "NotAuthenticated", None)]
    /\ last' = NoLast
    /\ UNCHANGED <<token, token_expiry, token_file, Others>>

\* A slip of ensure_authenticated: a login on every call.
ensure_needs_login_Always(tk, ex, t) == TRUE

\* A slip of ensure_authenticated: the expiry test left out.
ensure_needs_login_NoExpiryTest(tk, ex, t) == ~Truthy(tk)

\* The two tests of ensure_authenticated that lead to authenticate().
ensure_needs_login(tk, ex, t) == ~Truthy(tk) \/ (ex # NoExpiry /\ t >= ex)

\* ensure_authenticated up to its decision.  With a token and no expiry,
\* self.token_expiry - datetime.now() raises TypeError, which nothing
\* catches before the caller of post_data.
Travel_ensure_authenticated(c) ==
    /\ pc[c] = "ensure"
    /\ LET k == [call[c] EXCEPT !.saw = Seen(token, token_expiry, now)] IN
       IF ensure_needs_login(token, token_expiry, now)
       THEN /\ pc' = [pc EXCEPT ![c] = "auth"]
            /\ call' = [call EXCEPT ![c] = k]
       ELSE IF token_expiry = NoExpiry
       THEN /\ pc' = [pc EXCEPT ![c] = "done"]
            /\ call' = [call EXCEPT ![c] = Finish(k, "TypeError", None)]
       ELSE /\ pc' = [pc EXCEPT ![c] = "t_send"]
            /\ call' = [call EXCEPT ![c] = k]
    /\ UNCHANGED <<token, token_expiry, token_file, last, Others>>

\* authenticate up to self.session.post(login_url, headers=headers)
Travel_authenticate_send(c) ==
    /\ pc[c] = "auth"
    /\ pc' = [pc EXCEPT ![c] = "auth_wait"]
    /\ call' = [call EXCEPT ![c].log = Append(@, Req("Login", "Basic", None))]
    /\ UNCHANGED <<token, token_expiry, token_file, last, Others>>

\* response.status_code == 200 and Status.ResultCode == '1'
authenticate_success(r) == r.kind \in {"json", "quota"} /\ r.rc = "1"

\* authenticate returned False: make_authenticated_request returns None and
\* so does post_data.
AuthFalse(k) ==
    IF k.op = "authenticate" THEN Finish(k, "False", None)
    ELSE Finish(k, "None", None)

\* The Login response arrives: the rest of authenticate.
Travel_authenticate_recv(c, r, wrote) ==
    /\ pc[c] = "auth_wait"
    /\ LET k == [call[c] EXCEPT !.loginKind = r.kind, !.loginRc = r.rc] IN
       IF ~authenticate_success(r)
       THEN /\ pc' = [pc EXCEPT ![c] = "done"]
            /\ call' = [call EXCEPT ![c] = AuthFalse(k)]
            /\ UNCHANGED <<token, token_expiry, token_file>>
       ELSE IF ~Truthy(r.tok)
       THEN /\ token' = r.tok
            /\ pc' = [pc EXCEPT ![c] = "done"]
            /\ call' = [call EXCEPT ![c] = AuthFalse(k)]
            /\ UNCHANGED <<token_expiry, token_file>>
       ELSE /\ token' = r.tok
            /\ token_expiry' = EndOfDay(now)
            /\ token_file' = SaveToken(token_file, r.tok, EndOfDay(now), wrote)
            /\ IF k.op = "authenticate"
               THEN /\ pc' = [pc EXCEPT ![c] = "done"]
                    /\ call' = [call EXCEPT ![c] =
                         Finish([k EXCEPT !.loginOK = TRUE, !.tok = r.tok],
                                "True", None)]
               ELSE /\ pc' = [pc EXCEPT ![c] = "t_send"]
                    /\ call' = [call EXCEPT ![c] =
                         [k EXCEPT !.loginOK = TRUE, !.tok = r.tok]]
    /\ UNCHANGED <<last, Others>>

\* headers = {'Authorization': self.token}; self.session.post(url, ...)
Travel_send(c) ==
    /\ pc[c] = "t_send"
    /\ pc' = [pc EXCEPT ![c] = "t_wait"]
    /\ call' = [call EXCEPT ![c].tok = token,
                            ![c].log = Append(@, Req("Data", "bare", token))]
    /\ UNCHANGED <<token, token_expiry, token_file, last, Others>>

\* A slip of make_authenticated_request: every response taken for an
\* authorization failure.
AuthFailure_AnyResponse(r) == r # "transport"

\* response.status_code == 401 or 'token was timed out' in response.text.lower()
AuthFailure(r) == r # "transport" /\ (StatusCode(r) = 401 \/ TimedOutText(r))

\* A slip of post_data: the body returned without looking at the status.
post_data_IgnoresStatus(k, r) == Finish(k, "payload", r)

\* post_data on the Response r that make_authenticated_request returned: a
\* Response is truthy when its status is below 400.
post_data(k, r) ==
    IF StatusCode(r) < 400 /\ StatusCode(r) = 200
    THEN Finish(k, "payload", r)
    ELSE Finish(k, "None", r)

\* A slip of make_authenticated_request: the request is sent again after a
\* transport error too.
Travel_recv_RetriesTransport(c, r) ==
    /\ pc[c] = "t_wait"
    /\ LET k == [call[c] EXCEPT !.r1 = r] IN
       IF r = "transport" \/ AuthFailure(r)
       THEN /\ pc' = [pc EXCEPT ![c] = "t_wait2"]
            /\ call' = [call EXCEPT ![c] =
                          [k EXCEPT !.log = Append(@, Req("Data", "Bearer", token))]]
       ELSE /\ pc' = [pc EXCEPT ![c] = "done"]
            /\ call' = [call EXCEPT ![c] = post_data(k, r)]
    /\ UNCHANGED <<token, token_expiry, token_file, last, Others>>

\* The first response arrives.  On an authorization failure the request is
\* sent again with 'Bearer ' + self.token.
Travel_recv(c, r) ==
    /\ pc[c] = "t_wait"
    /\ LET k == [call[c] EXCEPT !.r1 = r] IN
       IF r = "transport"
       THEN /\ pc' = [pc EXCEPT ![c] = "done"]
            /\ call' = [call EXCEPT ![c] = Finish(k, "None", None)]
       ELSE IF AuthFailure(r)
       THEN /\ pc' = [pc EXCEPT ![c] = "t_wait2"]
            /\ call' = [call EXCEPT ![c] =
                          [k EXCEPT !.log = Append(@, Req("Data", "Bearer", token))]]
       ELSE /\ pc' = [pc EXCEPT ![c] = "done"]
            /\ call' = [call EXCEPT ![c] = post_data(k, r)]
    /\ UNCHANGED <<token, token_expiry, token_file, last, Others>>

\* The response to the Bearer request arrives: it is returned whatever it is.
Travel_recv2(c, r) ==
    /\ pc[c] = "t_wait2"
    /\ pc' = [pc EXCEPT ![c] = "done"]
    /\ LET k == [call[c] EXCEPT !.r2 = r] IN
       call' = [call EXCEPT ![c] =
                  IF r = "transport" THEN Finish(k, "None", None)
                  ELSE post_data(k, r)]
    /\ UNCHANGED <<token, token_expiry, token_file, last, Others>>

\* The process is started again: TravelAPIClient.__init__ and _load_token.
Construct ==
    /\ cls = "TravelAPIClient"
    /\ \A c \in Callers : Idle(c)
    /\ token' = LoadToken(token_file, now).token
    /\ token_expiry' = LoadToken(token_file, now).expiry
    /\ constructed' = LoadToken(token_file, now).ok
    /\ last' = [kind |-> "constructed", n |-> 0,
                tok |-> LoadToken(token_file, now).token]
    /\ UNCHANGED <<cls, hardcoded_token, token_file, now, pc, call>>

TravelNext ==
    \E c \in Callers :
        \/ \E inp \in Inputs : Travel_search_availability(c, inp)
        \/ Travel_authenticate(c)
        \/ Travel_debug(c)
        \/ \E inp \in Inputs : Travel_web_search(c, inp)
        \/ \E t \in {"M1", ""}, wrote \in BOOLEAN : set_token_manually(c, t, wrote)
        \/ Travel_ensure_authenticated(c)
        \/ Travel_authenticate_send(c)
        \/ \E r \in LoginResponses, wrote \in BOOLEAN :
              Travel_authenticate_recv(c, r, wrote)
        \/ Travel_send(c)
        \/ \E r \in DataResponses : Travel_recv(c, r)
        \/ \E r \in DataResponses : Travel_recv2(c, r)

Next ==
    \/ Tick
    \/ \E c \in Callers : Return(c)
    \/ AirIQNext
    \/ TravelNext
    \/ Construct


Spec == Init /\ [][Next]_vars
\* ------------------------------------------------------------ properties
\* The session is valid: a token is present and the expiry is absent or
\* lies in the future.
SessionValid(tk, ex, t) == Truthy(tk) /\ (ex = NoExpiry \/ t < ex)

DataOps == AirIQOps \cup {"search_availability"}

\* The first data request of a call that has sent one.
FirstData(k) == DataReqs(k)[1]

\* C1: of two successive token acquisitions, the first of which found the
\* session empty and obtained a token and the second of which runs before
\* the expiry, the first sent exactly one Login request and the second sends
\* none and uses the token the session holds.
C1_SecondAcquisitionUsesCache ==
    \A c \in Callers :
        (call[c].prev.kind = "acquired" /\ call[c].saw \notin {"unchecked", "due", "expired"})
            => /\ call[c].prev.n = 1
               /\ call[c].saw = "valid"
               /\ NLogin(call[c]) = 0
               /\ (NData(call[c]) > 0 => FirstData(call[c]).tok = token)
               /\ (pc[c] = "done" => call[c].outcome # "TypeError")

C1_Witness ==
    \E c \in Callers :
        /\ pc[c] = "done"
        /\ call[c].prev.kind = "acquired"
        /\ call[c].saw = "valid"
        /\ call[c].outcome = "payload"
        /\ NLogin(call[c]) = 0

\* C2: a token acquisition that finds a token whose expiry is not in the
\* future sends exactly one Login request, and sends it before any data
\* request of the call; no data request goes out unless that login succeeded.
C2_ExpiredSessionLogsInFirst ==
    \A c \in Callers :
        call[c].saw \in {"due", "expired"}
            => /\ NLogin(call[c]) <= 1
               /\ (pc[c] \notin {"login", "auth"} => NLogin(call[c]) = 1)
               /\ (NData(call[c]) > 0 =>
                      /\ call[c].log[1].kind = "Login"
                      /\ call[c].loginOK)

C2_Witness ==
    \E c \in Callers :
        /\ pc[c] = "done"
        /\ call[c].saw = "due"
        /\ call[c].outcome = "payload"
        /\ NLogin(call[c]) = 1

\* The step in which caller c's Login exchange ends in success: authenticate
\* returns True, or _login has set the expiry and returns the token.
LoginCompletes(c) ==
    \/ pc[c] = "auth_wait" /\ call'[c].loginOK
    \/ pc[c] = "login_expiry" /\ pc'[c] # "login_expiry"

\* The step in which caller c's Login exchange ends in failure.
LoginFails(c) ==
    /\ pc[c] \in {"login_wait", "auth_wait"}
    /\ pc'[c] = "done"
    /\ ~call'[c].loginOK

\* C3: right after a Login exchange that succeeded with token T, at whatever
\* time of day, the session holding T is valid: T is cached with an expiry
\* that lies in the future.
C3_LoginMakesSessionValid ==
    [][\A c \in Callers :
          (LoginCompletes(c) /\ token' = call'[c].tok)
              => /\ Truthy(token')
                 /\ token_expiry' # NoExpiry
                 /\ now' < token_expiry']_vars

\* How a failed login reaches the caller: an exception of _login, False
\* from authenticate, None from the data call that needed the login.
LoginFailureOutcomes ==
    {"RequestException", "HTTPError", "JSONDecodeError", "LoginFailed",
     "False", "None"}

\* The step in which the response to caller c's Login request arrives
\* without a positive status indicator: a transport error, an error status,
\* a body that is not JSON, or a body whose Status.ResultCode is not '1'.
LoginAnsweredNegative(c) ==
    /\ pc[c] \in {"login_wait", "auth_wait"}
    /\ pc'[c] # pc[c]
    /\ call'[c].loginRc # "1"

\* C4: a login attempt that failed (for one, by a negative status indicator)
\* is not taken for a success, caches no token and makes no session
\* Authenticated that was not, and the caller gets the failure, not a token.
C4_FailedLoginLeavesUnauthenticated ==
    [][\A c \in Callers :
          (LoginFails(c) \/ LoginAnsweredNegative(c))
              => /\ ~call'[c].loginOK
                 /\ call'[c].outcome \in LoginFailureOutcomes
                 /\ call'[c].ret = None
                 /\ (token' = token \/ ~Truthy(token'))
                 /\ (SessionValid(token', token_expiry', now')
                        => SessionValid(token, token_expiry, now))]_vars

\* C5: a Login response is accepted only with a non-empty Token and
\* Status.ResultCode = '1'.
C5_LoginAcceptedOnlyWithStatus ==
    \A c \in Callers :
        call[c].loginOK => (call[c].loginRc = "1" /\ Truthy(call[c].tok))

\* The Login requests a call sent between its first and its second data
\* request.
LoginsBetween(k) ==
    LET D == {i \in 1..Len(k.log) : k.log[i].kind = "Data"}
        i1 == CHOOSE i \in D : \A j \in D : i <= j
        i2 == CHOOSE i \in D : \A j \in D : j <= i
    IN  Cardinality({i \in i1..i2 : k.log[i].kind = "Login"})

\* C6: a data call whose first request got an authorization failure and
\* whose retry succeeded returns the payload of the retry, has sent exactly
\* two data requests, and has sent exactly one Login request between them.
C6_RetryAfterFreshLogin ==
    \A c \in Callers :
        (pc[c] = "done" /\ AuthFailure(call[c].r1) /\ call[c].r2 = "ok200")
            => /\ call[c].outcome = "payload"
               /\ call[c].ret = "ok200"
               /\ NData(call[c]) = 2
               /\ LoginsBetween(call[c]) = 1

\* C7: no call sends a third data request, and a data call rejected on its
\* first and on its retried request is over with the second rejection as
\* its result: make_authenticated_request returns that response, and
\* post_data hands on None, or the body that says the token timed out.
C7_SecondFailureReturned ==
    \A c \in Callers :
        /\ NData(call[c]) <= 2
        /\ (AuthFailure(call[c].r1) /\ AuthFailure(call[c].r2))
               => /\ pc[c] = "done"
                  /\ NData(call[c]) = 2
                  /\ call[c].ret = call[c].r2
                  /\ \/ call[c].outcome = "None"
                     \/ call[c].outcome = "payload" /\ TimedOutText(call[c].r2)

C7_Witness ==
    \E c \in Callers :
        /\ pc[c] = "done"
        /\ call[c].r1 = "unauth401"
        /\ call[c].r2 = "unauth401"
        /\ call[c].outcome = "None"
        /\ NData(call[c]) = 2

\* C8: a data operation that got as far as its data request is over after
\* exactly one data request, or exactly two when the first got an
\* authorization failure, and after at most one Login request.
C8_OneOrTwoDataRequests ==
    \A c \in Callers :
        (pc[c] = "done" /\ call[c].op \in DataOps /\ NData(call[c]) >= 1)
            => /\ NLogin(call[c]) <= 1
               /\ NData(call[c]) = IF AuthFailure(call[c].r1) THEN 2 ELSE 1

\* Caller c found the session Unauthenticated and has sent its Login
\* request, whose handling is not over.
LoginUnderWay(c) ==
    /\ call[c].saw \in {"empty", "due", "expired"}
    /\ pc[c] \in {"login_wait", "login_expiry", "auth_wait"}

\* C9: the check-then-login sequence is atomic: two callers never both have
\* a Login request under way after each found the session Unauthenticated.
C9_CheckThenLoginAtomic ==
    \A c, d \in Callers :
        c # d => ~(LoginUnderWay(c) /\ LoginUnderWay(d))

\* C10: an injected token is used without any login: with a hardcoded token
\* no call sends a Login request and every data request carries it;
\* set_token_manually sends nothing, and the data operation that follows it
\* on the same day sends no Login request and carries the injected token.
C10_InjectedTokenBypassesLogin ==
    \A c \in Callers :
        /\ Truthy(hardcoded_token)
              => /\ NLogin(call[c]) = 0
                 /\ \A i \in 1..Len(call[c].log) :
                       call[c].log[i].tok = hardcoded_token
        /\ call[c].op = "set_token_manually" => call[c].log = <<>>
        /\ (/\ call[c].prev.kind = "injected"
            /\ call[c].op \in DataOps
            /\ call[c].saw \in {"valid", "due"})
              => /\ NLogin(call[c]) = 0
                 /\ (NData(call[c]) > 0 =>
                        FirstData(call[c]).tok = call[c].prev.tok)

\* What a validity check found is a valid session.
SeenValid(x) == x \in {"noexp", "valid"}

\* The validity check of caller c's call sent it to the login.
SentToLogin(c) == pc[c] \in {"login", "auth"} \/ NLogin(call[c]) >= 1

\* Caller c's call has been through the check of _get_token or of
\* ensure_authenticated.
Checked(c) == call[c].saw # "unchecked"

\* C11: every place that decides validity decides 'valid' exactly when the
\* token is present and the expiry is absent or in the future, and completes
\* normally: _get_token and ensure_authenticated go on without a login
\* exactly then and raise nothing, is_token_valid answers True exactly then,
\* get_token_status answers "valid" exactly then and raises nothing.
C11_ValidityDecidedAlike ==
    \A c \in Callers :
        /\ Checked(c) => /\ call[c].outcome # "TypeError"
                         /\ SeenValid(call[c].saw) <=> ~SentToLogin(c)
        /\ call[c].op = "web_search"
              => (SeenValid(call[c].gate) <=> call[c].status = "True")
        /\ call[c].op = "debug"
              => /\ call[c].status # "TypeError"
                 /\ SeenValid(call[c].gate) <=> call[c].status = "valid"

\* The server answered a data request with an authorization failure.
Rejected(r) == r \in {"unauth401", "timedout200"}

\* Caller c's data call is over and the server rejected its token: on the
\* only request, or on the first request and on the retry.
TokenRejected(c) ==
    /\ pc[c] = "done"
    /\ NData(call[c]) >= 1
    /\ Rejected(call[c].r1)
    /\ call[c].r2 = "none" \/ Rejected(call[c].r2)

\* C12: once a data call has had its token rejected by the server, the
\* session is no longer Authenticated with that token, so that the next data
\* call logs in instead of sending the rejected token again.
C12_RejectedTokenInvalidated ==
    \A c \in Callers :
        TokenRejected(c)
            => ~(/\ token = FirstData(call[c]).tok
                 /\ SessionValid(token, token_expiry, now))

\* The token file holds what _save_token writes for this agent.
Persisted(f) ==
    f.kind = "json" /\ f.agent_id = AGENT_ID /\ Truthy(f.token) /\ f.expiry >= 0

\* The step is a construction of the TravelAPIClient.
Constructs ==
    /\ \A c \in Callers : Idle(c)
    /\ pc' = pc
    /\ now' = now
    /\ last'.kind = "constructed"

\* The call was begun right after a construction that loaded a token.
FirstAfterRestart(k) ==
    /\ k.prev.kind = "constructed"
    /\ Truthy(k.prev.tok)
    /\ k.op \in DataOps \cup {"web_search"}

\* C13: a client constructed on a persisted token file before the saved
\* expiry holds exactly the saved token and expiry, and its first data
\* operation, run before that expiry, sends no Login request and carries the
\* saved token; constructed when the saved expiry has passed, it holds
\* neither token nor expiry.
C13_PersistedTokenSurvivesRestart ==
    [][/\ (Constructs /\ Persisted(token_file))
            => /\ constructed'
               /\ IF now < token_file.expiry
                  THEN token' = token_file.token /\ token_expiry' = token_file.expiry
                  ELSE token' = None /\ token_expiry' = NoExpiry
       /\ \A c \in Callers :
            (FirstAfterRestart(call'[c]) /\ call'[c].saw = "valid")
                => /\ NLogin(call'[c]) = 0
                   /\ call'[c].outcome # "TypeError"
                   /\ NData(call'[c]) > 0
                         => FirstData(call'[c]).tok = call'[c].prev.tok]_vars

C13_Witness ==
    \E c \in Callers :
        /\ pc[c] = "done"
        /\ FirstAfterRestart(call[c])
        /\ call[c].prev.tok \in {"T1", "T2", "M1"}
        /\ token_file.token = call[c].prev.tok
        /\ call[c].outcome = "payload"
        /\ NLogin(call[c]) = 0

\* C14: malformed input is rejected before any network call: a call or a
\* /search request with a bad date or an empty station code sends neither a
\* Login request nor a data request.
C14_MalformedInputSendsNothing ==
    \A c \in Callers : call[c].input # "ok" => call[c].log = <<>>

\* C15: no value returned to a caller or to an HTTP client is the session
\* token (the cached one, or the hardcoded one that stands in for it).
C15_NoResultExposesToken ==
    \A c \in Callers :
        (pc[c] = "done" /\ Truthy(call[c].ret))
            => call[c].ret \notin {token, hardcoded_token}

\* C16: a login refused because the day's logins are used up reaches the
\* caller as an outcome of its own, none of those by which the other login
\* failures (transport error, error status, malformed body, refusal) do.
C16_QuotaFailureDistinct ==
    \A c \in Callers :
        (pc[c] = "done" /\ call[c].loginKind = "quota")
            => call[c].outcome \notin LoginFailureOutcomes

\* No call is inside the client.
Quiescent == \A c \in Callers : pc[c] \in {"idle", "done"}

\* C17: whenever no call is under way in a client, whatever constructions,
\* logins, injections and data calls came before, the session holds a
\* token if and only if it holds an expiry.
C17_TokenIffExpiry ==
    (constructed /\ Quiescent) => (Truthy(token) <=> token_expiry # NoExpiry)

\* Caller c is inside the login transition, between the write of the new
\* token and the write of its expiry.
HalfUpdated(c) == pc[c] = "login_expiry"

\* The step is the validity check of caller d's call.
ChecksValidity(d) ==
    /\ pc[d] \in {"get_token", "ensure"}
    /\ pc'[d] # pc[d]
    /\ call'[d].saw # "unchecked"

\* C18: access to the session is serialized: while one caller is between
\* the two writes of the login transition, no other caller's validity check
\* runs, so none sees the new token with the old or no expiry.
C18_LoginWritesSerialized ==
    [][\A c, d \in Callers :
          (c # d /\ HalfUpdated(c)) => ~ChecksValidity(d)]_vars

\* The step in which caller c sends a Login request.
SendsLogin(c) == NLogin(call'[c]) > NLogin(call[c])

\* The call is a data operation whose validity check found the session not
\* valid.
FoundNotValid(k) ==
    /\ k.op \in DataOps \cup {"web_search"}
    /\ k.saw \in {"empty", "due", "expired"}

\* The call is an explicit login: authenticate() called directly, or the
\* /test-login route.
ExplicitLogin(k) == k.op \in {"authenticate", "test_login"}

\* C19 (as stated): a Login request is sent only by a data operation that
\* found the session not valid, and by no entry point while a valid token is
\* cached; a construction sends nothing.
C19_LoginOnlyOnDemand ==
    [][/\ \A c \in Callers :
            SendsLogin(c)
                => /\ FoundNotValid(call[c])
                   /\ ~SessionValid(token, token_expiry, now)
       /\ Constructs => call' = call]_vars

\* C19 (amended): a Login request is sent only by a data operation whose
\* validity check found the session not valid, or by an explicit login
\* (authenticate() called directly, the /test-login route), which sends one
\* whatever the session holds; no call sends more than one, and a
\* construction sends nothing.
C19_LoginOnDemandOrExplicit ==
    [][/\ \A c \in Callers :
            SendsLogin(c)
                => /\ FoundNotValid(call[c]) \/ ExplicitLogin(call[c])
                   /\ NLogin(call'[c]) = 1
       /\ Constructs => call' = call]_vars

C19_Witness ==
    \E c \in Callers :
        /\ ExplicitLogin(call[c])
        /\ NLogin(call[c]) = 1
        /\ SessionValid(token, token_expiry, now)
        /\ call[c].loginKind = "none"

\* C20: within one call the 'Bearer <token>' form is the fallback only: the
\* first data request carries the bare token, and a Bearer request is sent
\* only as the second data request of a call whose bare-token request got
\* an authorization failure, never after a first request that was accepted.
C20_BearerOnlyAsRetry ==
    \A c \in Callers :
        LET D == DataReqs(call[c]) IN
        /\ Len(D) >= 1 => D[1].scheme = "bare"
        /\ \A i \in 1..Len(D) :
              D[i].scheme = "Bearer" => (i = 2 /\ Rejected(call[c].r1))
        /\ call[c].r1 = "ok200" => Len(D) = 1

C20_Witness ==
    \E c \in Callers :
        /\ pc[c] = "done"
        /\ NData(call[c]) = 2
        /\ DataReqs(call[c])[2].scheme = "Bearer"
        /\ Rejected(call[c].r1)
        /\ call[c].r2 = "ok200"

\* The step in which a data request of caller c ends in a transport error.
TransportFails(c) ==
    \/ call[c].r1 # "transport" /\ call'[c].r1 = "transport"
    \/ call[c].r2 # "transport" /\ call'[c].r2 = "transport"

C22_WebSearchLogsIn ==
    \A c \in Callers :
        (/\ call[c].op = "web_search"
         /\ ~SeenValid(call[c].gate)
         /\ pc[c] = "done")
            => /\ NLogin(call[c]) = 1
               /\ call[c].loginOK => NData(call[c]) >= 1

\* The token file holds the token of another agent.
OtherAgentsFile(f) ==
    f.kind = "json" /\ f.agent_id # AGENT_ID /\ Truthy(f.token)

\* C23: while the token file holds another agent's token, the client does
\* not hold that token, sends no request that carries it, and has an empty
\* session after a construction.
C23_TokenBoundToAgent ==
    OtherAgentsFile(token_file)
        => /\ token # token_file.token
           /\ last.kind = "constructed"
                 => (token = None /\ token_expiry = NoExpiry /\ constructed)
           /\ \A c \in Callers : \A i \in 1..Len(call[c].log) :
                 call[c].log[i].tok # token_file.token

C23_Witness ==
    \E c \in Callers :
        /\ OtherAgentsFile(token_file)
        /\ call[c].prev.kind = "constructed"
        /\ call[c].prev.tok = None
        /\ call[c].saw = "empty"
        /\ NData(call[c]) >= 1

\* The login of the call was answered with a positive status indicator and
\* a token, and was taken for a success.
LoggedIn(k) ==
    NLogin(k) = 1 /\ k.loginOK /\ k.loginRc = "1" /\ Truthy(k.tok)

\* C24: every data request carries a non-empty token that the validity
\* check of the same call found valid or that a successful login of the
\* same call issued (or the hardcoded token that replaces both); a call
\* whose login failed sends no data request.
C24_DataRequestsCarryValidToken ==
    \A c \in Callers :
        \A i \in 1..Len(call[c].log) :
            call[c].log[i].kind = "Data"
                => /\ Truthy(call[c].log[i].tok)
                   /\ \/ call[c].log[i].tok = hardcoded_token
                      \/ SeenValid(call[c].saw)
                      \/ LoggedIn(call[c])

\* C25: a login attempt that ends in failure, of whatever kind, leaves the
\* token, the expiry and the token file as they were before it.
C25_FailedLoginChangesNothing ==
    [][\A c \in Callers :
          LoginFails(c)
              => /\ token' = token
                 /\ token_expiry' = token_expiry
                 /\ token_file' = token_file]_vars

\* C26: a construction of the TravelAPIClient completes whatever the token
\* file holds, sends nothing, and leaves a session that is empty or valid.
C26_ConstructionAlwaysCompletes ==
    [][Constructs
          => /\ constructed'
             /\ call' = call
             /\ \/ token' = None /\ token_expiry' = NoExpiry
                \/ SessionValid(token', token_expiry', now')]_vars

====
